---- MODULE Spec2Model ----
(***************************************************************************)
(* Model of the request-resilience layer of the Prompt Engineering tool:   *)
(* src/src/models.py (ensure_complete_ending, sanitize_user_input,         *)
(* validate_model_selection, get_model_response) under the retry wrapper   *)
(* of src/src/error_handlers.py (handle_api_errors).                       *)
(*                                                                         *)
(* A Python str is a sequence of one-character strings.  Characters that   *)
(* have no printable form are written as tokens ("x00", "x85", ...).       *)
(* A Python float that the code only compares and copies (temperature,     *)
(* top_p) is held in tenths, as an integer: 0.7 is 7, 2.0 is 20.           *)
(***************************************************************************)
EXTENDS Integers, Sequences, FiniteSets, TLC

\* ------------------------------------------------------------------------
\* Bounds of the model
\* ------------------------------------------------------------------------

\* longest text given to ensure_complete_ending in SpecEnsure
MaxTextLen == 3

\* longest content of a response of the endpoint in Spec
MaxContentLen == 1

\* ------------------------------------------------------------------------
\* Python values, results and exceptions
\* ------------------------------------------------------------------------

PyStr(s) == [type |-> "str", s |-> s, n |-> 0]
PyNum(n) == [type |-> "num", s |-> <<>>, n |-> n]
PyNone == [type |-> "NoneType", s |-> <<>>, n |-> 0]

\* an exception object: its class, the field_name a ValidationError carries,
\* and the chain of __cause__ (raise ... from e), nearest cause first
NoExc == [cls |-> "", field |-> "", cause |-> <<>>]
Exc(cls, field) == [cls |-> cls, field |-> field, cause |-> <<>>]
ExcFrom(cls, e) ==
    [cls |-> cls, field |-> "",
     cause |-> <<[cls |-> e.cls, field |-> e.field]>> \o e.cause]

\* how a call ends: it returns a value or raises an exception
Return(v) == [kind |-> "return", val |-> v, exc |-> NoExc]
Raise(e) == [kind |-> "raise", val |-> PyNone, exc |-> e]
Pending == [kind |-> "pending", val |-> PyNone, exc |-> NoExc]

\* all strings over alphabet A of length at most n
Strings(A, n) == UNION {[1..k -> A] : k \in 0..n}

\* ------------------------------------------------------------------------
\* str methods
\* ------------------------------------------------------------------------

\* the characters str.strip() removes and \s matches (str.isspace())
Whitespace == {" ", "\t", "\n", "\r", "\f", "x0b", "x1f", "x85", "xa0"}

IsSpace(c) == c \in Whitespace

RECURSIVE lstrip(_)
lstrip(s) ==
    IF s = <<>> THEN s
    ELSE IF IsSpace(Head(s)) THEN lstrip(Tail(s)) ELSE s

RECURSIVE rstrip(_)
rstrip(s) ==
    IF s = <<>> THEN s
    ELSE IF IsSpace(s[Len(s)]) THEN rstrip(SubSeq(s, 1, Len(s) - 1)) ELSE s

strip(s) == lstrip(rstrip(s))

\* s.endswith(('.', '!', '?'))
TerminalPunctuation == {".", "!", "?"}

endswith_terminal(s) == s # <<>> /\ s[Len(s)] \in TerminalPunctuation

\* ------------------------------------------------------------------------
\* models.py: is_complete_sentence, ensure_complete_ending
\* ------------------------------------------------------------------------

closing_statement ==
    <<" ","T","h","a","n","k"," ","y","o","u"," ","f","o","r"," ","y","o","u",
    "r"," ","u","n","d","e","r","s","t","a","n","d","i","n","g"," ","a","n","d",
    " ","s","u","p","p","o","r","t","."," ","S","i","n","c","e","r","e","l","y",
    ","," ","[","Y","o","u","r"," ","C","o","m","p","a","n","y"," ","N","a","m",
    "e","]"," ","C","u","s","t","o","m","e","r"," ","S","u","p","p","o","r","t",
    " ","T","e","a","m",".">>

\* is_complete_sentence(text) for a str or None; another type raises
is_complete_sentence(v) ==
    IF v.type = "NoneType" THEN Return(FALSE)
    ELSE IF v.type # "str" THEN Raise(Exc("ValidationError", "text"))
    ELSE LET stripped_text == strip(v.s)
         IN  Return(IF stripped_text # <<>>
                    THEN endswith_terminal(stripped_text) ELSE FALSE)

\* mutant: the complete text is returned trimmed, not as it was given
ensure_complete_ending_trims(v) ==
    IF v.type = "NoneType" THEN Return(PyStr(<<>>))
    ELSE IF v.type # "str" THEN Raise(Exc("ValidationError", "text"))
    ELSE IF strip(v.s) = <<>> THEN Return(PyStr(strip(v.s)))
    ELSE IF is_complete_sentence(v).val THEN Return(PyStr(strip(v.s)))
    ELSE Return(PyStr(rstrip(v.s) \o closing_statement))

\* mutant: the closing is appended to the text as given and lacks its full stop
ensure_complete_ending_unfinished(v) ==
    IF v.type = "NoneType" THEN Return(PyStr(<<>>))
    ELSE IF v.type # "str" THEN Raise(Exc("ValidationError", "text"))
    ELSE IF strip(v.s) = <<>> THEN Return(v)
    ELSE IF is_complete_sentence(v).val THEN Return(v)
    ELSE Return(PyStr(rstrip(v.s)
                      \o SubSeq(closing_statement, 1, Len(closing_statement) - 1)))

ensure_complete_ending(v) ==
    IF v.type = "NoneType" THEN Return(PyStr(<<>>))
    ELSE IF v.type # "str" THEN Raise(Exc("ValidationError", "text"))
    ELSE LET stripped_text == strip(v.s)
         IN  IF stripped_text = <<>> THEN Return(v)
             ELSE IF is_complete_sentence(v).val THEN Return(v)
             ELSE Return(PyStr(rstrip(v.s) \o closing_statement))

\* ------------------------------------------------------------------------
\* re: the patterns of sanitize_user_input, all compiled with (?i)
\* ------------------------------------------------------------------------

\* the literal words of the patterns
W ==
    [ignore |-> <<"i","g","n","o","r","e">>,
     all |-> <<"a","l","l">>,
     previous |-> <<"p","r","e","v","i","o","u","s">>,
     instruction |-> <<"i","n","s","t","r","u","c","t","i","o","n">>,
     prompt |-> <<"p","r","o","m","p","t">>,
     rule |-> <<"r","u","l","e">>,
     s |-> <<"s">>,
     forget |-> <<"f","o","r","g","e","t">>,
     everything |-> <<"e","v","e","r","y","t","h","i","n","g">>,
     your |-> <<"y","o","u","r">>,
     training |-> <<"t","r","a","i","n","i","n","g">>,
     override |-> <<"o","v","e","r","r","i","d","e">>,
     setting |-> <<"s","e","t","t","i","n","g">>,
     safety |-> <<"s","a","f","e","t","y">>,
     jailbreak |-> <<"j","a","i","l","b","r","e","a","k">>,
     developer |-> <<"d","e","v","e","l","o","p","e","r">>,
     mode |-> <<"m","o","d","e">>,
     admin |-> <<"a","d","m","i","n">>,
     access |-> <<"a","c","c","e","s","s">>,
     sudo |-> <<"s","u","d","o">>,
     system |-> <<"s","y","s","t","e","m">>,
     colon |-> <<":">>,
     you |-> <<"y","o","u">>,
     are |-> <<"a","r","e">>,
     now |-> <<"n","o","w">>,
     pretend |-> <<"p","r","e","t","e","n","d">>,
     not |-> <<"n","o","t">>,
     a |-> <<"a">>,
     n |-> <<"n">>,
     ai |-> <<"a","i">>,
     assistant |-> <<"a","s","s","i","s","t","a","n","t">>,
     user |-> <<"u","s","e","r">>,
     act |-> <<"a","c","t">>,
     as |-> <<"a","s">>,
     different |-> <<"d","i","f","f","e","r","e","n","t">>,
     new |-> <<"n","e","w">>,
     another |-> <<"a","n","o","t","h","e","r">>,
     roleplay |-> <<"r","o","l","e","p","l","a","y">>]

\* str.lower() on the letters, for (?i)
UpperToLower ==
    ("A" :> "a") @@ ("B" :> "b") @@ ("C" :> "c") @@ ("D" :> "d") @@ ("E" :> "e") @@
    ("F" :> "f") @@ ("G" :> "g") @@ ("H" :> "h") @@ ("I" :> "i") @@ ("J" :> "j") @@
    ("K" :> "k") @@ ("L" :> "l") @@ ("M" :> "m") @@ ("N" :> "n") @@ ("O" :> "o") @@
    ("P" :> "p") @@ ("Q" :> "q") @@ ("R" :> "r") @@ ("S" :> "s") @@ ("T" :> "t") @@
    ("U" :> "u") @@ ("V" :> "v") @@ ("W" :> "w") @@ ("X" :> "x") @@ ("Y" :> "y") @@
    ("Z" :> "z")

lower(c) == IF c \in DOMAIN UpperToLower THEN UpperToLower[c] ELSE c

\* mutant: the class reaches the space, [\x00-\x20\x7f-\x9f]
ControlChars_and_space ==
    {"x00", "\t", "\n", "\r", "\f", "x0b", "x1f", " ", "x7f", "x85"}

\* the characters of [\x00-\x1f\x7f-\x9f]
ControlChars == {"x00", "\t", "\n", "\r", "\f", "x0b", "x1f", "x7f", "x85"}

\* pattern syntax
Lit(w) == <<"lit", w>>
Ws == <<"ws">>
AnyChar == <<"any">>
OneOf(S) == <<"set", S>>
NoneOf(S) == <<"nset", S>>
Cat(rs) == <<"cat", rs>>
Alt(rs) == <<"alt", rs>>
Opt(r) == <<"opt", r>>
Star(r) == <<"star", r>>
Plus(r) == <<"plus", r>>

\* the positions j at which a match of r that starts at s[i] can end (it
\* covers s[i..j-1])
RECURSIVE MatchEnds(_, _, _)
RECURSIVE CatEnds(_, _, _)
RECURSIVE Closure(_, _, _)
MatchEnds(r, s, i) ==
    CASE r[1] = "lit" ->
            IF /\ i + Len(r[2]) - 1 <= Len(s)
               /\ \A k \in 1..Len(r[2]) : lower(s[i + k - 1]) = r[2][k]
            THEN {i + Len(r[2])} ELSE {}
      [] r[1] = "ws" -> IF i <= Len(s) /\ IsSpace(s[i]) THEN {i + 1} ELSE {}
      [] r[1] = "any" -> IF i <= Len(s) THEN {i + 1} ELSE {}
      [] r[1] = "set" -> IF i <= Len(s) /\ s[i] \in r[2] THEN {i + 1} ELSE {}
      [] r[1] = "nset" -> IF i <= Len(s) /\ s[i] \notin r[2] THEN {i + 1} ELSE {}
      [] r[1] = "cat" -> CatEnds(r[2], s, {i})
      [] r[1] = "alt" -> UNION {MatchEnds(r[2][k], s, i) : k \in 1..Len(r[2])}
      [] r[1] = "opt" -> {i} \cup MatchEnds(r[2], s, i)
      [] r[1] = "star" -> Closure(r[2], s, {i})
      [] r[1] = "plus" -> Closure(r[2], s, MatchEnds(r[2], s, i))

CatEnds(rs, s, I) ==
    IF rs = <<>> THEN I
    ELSE CatEnds(Tail(rs), s, UNION {MatchEnds(Head(rs), s, i) : i \in I})

Closure(r, s, I) ==
    LET J == I \cup UNION {MatchEnds(r, s, i) : i \in I}
    IN  IF J = I THEN I ELSE Closure(r, s, J)

\* re.search(pattern, s) finds a match
re_search(r, s) == \E i \in 1..(Len(s) + 1) : MatchEnds(r, s, i) # {}

SetMax(S) == CHOOSE x \in S : \A y \in S : y <= x
SetMin(S) == CHOOSE x \in S : \A y \in S : x <= y

\* re.sub(pattern, repl, s): the leftmost matches, one after the other; a
\* greedy pattern takes its longest match, a lazy one (*?) its shortest.
\* No pattern of this module matches the empty string.
RECURSIVE SubFrom(_, _, _, _, _)
SubFrom(r, repl, s, lazy, i) ==
    IF i > Len(s) THEN <<>>
    ELSE LET ends == MatchEnds(r, s, i)
         IN  IF ends = {} THEN <<s[i]>> \o SubFrom(r, repl, s, lazy, i + 1)
             ELSE repl \o SubFrom(r, repl, s, lazy,
                                  IF lazy THEN SetMin(ends) ELSE SetMax(ends))

re_sub(r, repl, s) == SubFrom(r, repl, s, FALSE, 1)
re_sub_lazy(r, repl, s) == SubFrom(r, repl, s, TRUE, 1)

Ws1 == Plus(Ws)
Ws0 == Star(Ws)
Plural(w) == Cat(<<Lit(w), Opt(Lit(W.s))>>)

high_risk_patterns ==
    << Cat(<<Lit(W.ignore), Ws1, Opt(Cat(<<Lit(W.all), Ws1>>)),
             Opt(Cat(<<Lit(W.previous), Ws1>>)),
             Alt(<<Plural(W.instruction), Plural(W.prompt), Plural(W.rule)>>)>>),
       Cat(<<Lit(W.forget), Ws1,
             Alt(<<Lit(W.everything), Lit(W.all),
                   Cat(<<Lit(W.your), Ws1,
                         Alt(<<Plural(W.instruction), Lit(W.training)>>)>>)>>)>>),
       Cat(<<Lit(W.override), Ws1,
             Alt(<<Plural(W.instruction), Plural(W.setting), Lit(W.safety)>>)>>),
       Lit(W.jailbreak),
       Cat(<<Lit(W.developer), Ws1, Lit(W.mode)>>),
       Cat(<<Lit(W.admin), Ws1, Alt(<<Lit(W.mode), Lit(W.access)>>)>>),
       Cat(<<Lit(W.sudo), Ws1, Lit(W.mode)>>),
       Cat(<<Lit(W.system), Ws0, Lit(W.colon), Ws0, Lit(W.you), Ws1,
             Lit(W.are), Ws1, Lit(W.now)>>),
       Cat(<<Lit(W.pretend), Ws1, Lit(W.you), Ws1, Lit(W.are), Ws1,
             Opt(Cat(<<Lit(W.not), Ws1>>)),
             Opt(Cat(<<Lit(W.a), Opt(Lit(W.n)), Ws1>>)),
             Alt(<<Lit(W.ai), Lit(W.assistant)>>)>>) >>

ROLE_FILTERED ==
    <<"[","R","O","L","E","_","F","I","L","T","E","R","E","D","]",":">>

ROLEPLAY_FILTERED ==
    <<"[","R","O","L","E","P","L","A","Y","_","F","I","L","T","E","R","E","D",
    "]">>

CODE_BLOCK_REMOVED ==
    <<"[","C","O","D","E","_","B","L","O","C","K","_","R","E","M","O","V","E",
    "D","]">>

INLINE_CODE_REMOVED ==
    <<"[","I","N","L","I","N","E","_","C","O","D","E","_","R","E","M","O","V",
    "E","D","]">>

\* (pattern, replacement) pairs
safe_patterns ==
    << <<Cat(<<Lit(W.system), Ws0, Lit(W.colon)>>), ROLE_FILTERED>>,
       <<Cat(<<Lit(W.assistant), Ws0, Lit(W.colon)>>), ROLE_FILTERED>>,
       <<Cat(<<Lit(W.user), Ws0, Lit(W.colon)>>), ROLE_FILTERED>>,
       <<Cat(<<Lit(W.act), Ws1, Lit(W.as), Ws1, Opt(Cat(<<Lit(W.a), Ws1>>)),
               Alt(<<Lit(W.different), Lit(W.new), Lit(W.another)>>)>>),
         ROLEPLAY_FILTERED>>,
       <<Cat(<<Lit(W.roleplay), Ws1, Lit(W.as)>>), ROLEPLAY_FILTERED>> >>

\* the backtick, chr(0x60)
Backtick == {"x60"}
code_block_pattern ==
    Cat(<<Lit(<<"x60","x60","x60">>), Star(AnyChar), Lit(<<"x60","x60","x60">>)>>)
inline_code_pattern ==
    Cat(<<Lit(<<"x60">>), Star(NoneOf(Backtick)), Lit(<<"x60">>)>>)

\* ------------------------------------------------------------------------
\* exceptions.py
\* ------------------------------------------------------------------------

\* PromptInjectionError(message, **kw): __init__ takes detected_pattern and
\* input_text; any other keyword makes the construction raise TypeError
PromptInjectionError_init(kw) ==
    IF kw \subseteq {"detected_pattern", "input_text"}
    THEN Exc("PromptInjectionError", "")
    ELSE Exc("TypeError", "")

\* ------------------------------------------------------------------------
\* models.py: sanitize_user_input, validate_model_selection
\* ------------------------------------------------------------------------

\* the default of sanitize_user_input's max_length
DEFAULT_MAX_LENGTH == 2000

RECURSIVE ApplySafePatterns(_, _)
ApplySafePatterns(pairs, s) ==
    IF pairs = <<>> THEN s
    ELSE ApplySafePatterns(Tail(pairs), re_sub(Head(pairs)[1], Head(pairs)[2], s))

\* mutant: a text that the filters leave empty is returned, not refused
sanitize_user_input_keeps_empty(v, max_length) ==
    IF v.type = "NoneType" THEN Raise(Exc("ValidationError", "user_input"))
    ELSE IF v.type # "str" THEN Raise(Exc("ValidationError", "user_input"))
    ELSE IF strip(v.s) = <<>> THEN Raise(Exc("ValidationError", "user_input"))
    ELSE IF Len(v.s) > max_length
    THEN Raise(Exc("ValidationError", "user_input"))
    ELSE
    LET original_input == strip(v.s)
        detected_patterns ==
            {k \in 1..Len(high_risk_patterns) :
                re_search(high_risk_patterns[k], original_input)}
    IN  IF detected_patterns # {}
        THEN Raise(PromptInjectionError_init({"patterns_detected"}))
        ELSE
        LET filtered == ApplySafePatterns(safe_patterns, original_input)
            no_control == re_sub(OneOf(ControlChars), <<>>, filtered)
            collapsed == re_sub(Plus(Ws), <<" ">>, no_control)
            no_blocks == re_sub_lazy(code_block_pattern, CODE_BLOCK_REMOVED,
                                     collapsed)
            no_inline == re_sub(inline_code_pattern, INLINE_CODE_REMOVED,
                                no_blocks)
        IN  Return(PyStr(strip(no_inline)))

sanitize_user_input(v, max_length) ==
    IF v.type = "NoneType" THEN Raise(Exc("ValidationError", "user_input"))
    ELSE IF v.type # "str" THEN Raise(Exc("ValidationError", "user_input"))
    ELSE IF strip(v.s) = <<>> THEN Raise(Exc("ValidationError", "user_input"))
    ELSE IF Len(v.s) > max_length
    THEN Raise(Exc("ValidationError", "user_input"))
    ELSE
    LET original_input == strip(v.s)
        detected_patterns ==
            {k \in 1..Len(high_risk_patterns) :
                re_search(high_risk_patterns[k], original_input)}
    IN  IF detected_patterns # {}
        THEN Raise(PromptInjectionError_init({"patterns_detected"}))
        ELSE
        LET filtered == ApplySafePatterns(safe_patterns, original_input)
            no_control == re_sub(OneOf(ControlChars), <<>>, filtered)
            collapsed == re_sub(Plus(Ws), <<" ">>, no_control)
            no_blocks == re_sub_lazy(code_block_pattern, CODE_BLOCK_REMOVED,
                                     collapsed)
            no_inline == re_sub(inline_code_pattern, INLINE_CODE_REMOVED,
                                no_blocks)
            sanitized == strip(no_inline)
        IN  IF sanitized = <<>>
            THEN Raise(Exc("ValidationError", "user_input"))
            ELSE Return(PyStr(sanitized))

\* the API identifiers, MODELS.values()
MODELS_values ==
    { <<"g","p","t","-","4","o">>,
      <<"g","p","t","-","4","o","-","m","i","n","i">>,
      <<"g","p","t","-","4","-","t","u","r","b","o">>,
      <<"g","p","t","-","4">>,
      <<"g","p","t","-","3",".","5","-","t","u","r","b","o">>,
      <<"o","1">>,
      <<"o","1","-","m","i","n","i">>,
      <<"o","3","-","m","i","n","i">> }

O_SERIES_MODELS ==
    { <<"o","1">>,
      <<"o","1","-","m","i","n","i">>,
      <<"o","1","-","p","r","e","v","i","e","w">>,
      <<"o","3","-","m","i","n","i">> }

\* mutant: the argument is returned as it was given, whitespace included
validate_model_selection_returns_argument(v) ==
    IF v.type = "NoneType" THEN Raise(Exc("ValidationError", "model"))
    ELSE IF v.type # "str" THEN Raise(Exc("ValidationError", "model"))
    ELSE IF strip(v.s) = <<>> THEN Raise(Exc("ValidationError", "model"))
    ELSE LET model == strip(v.s)
         IN  IF model \notin MODELS_values
             THEN Raise(Exc("ValidationError", "model"))
             ELSE Return(v)

\* mutant: an id of O_SERIES_MODELS is accepted without being in MODELS
validate_model_selection_or_o_series(v) ==
    IF v.type = "NoneType" THEN Raise(Exc("ValidationError", "model"))
    ELSE IF v.type # "str" THEN Raise(Exc("ValidationError", "model"))
    ELSE IF strip(v.s) = <<>> THEN Raise(Exc("ValidationError", "model"))
    ELSE LET model == strip(v.s)
         IN  IF model \notin MODELS_values \cup O_SERIES_MODELS
             THEN Raise(Exc("ValidationError", "model"))
             ELSE Return(PyStr(model))

validate_model_selection(v) ==
    IF v.type = "NoneType" THEN Raise(Exc("ValidationError", "model"))
    ELSE IF v.type # "str" THEN Raise(Exc("ValidationError", "model"))
    ELSE IF strip(v.s) = <<>> THEN Raise(Exc("ValidationError", "model"))
    ELSE LET model == strip(v.s)
         IN  IF model \notin MODELS_values
             THEN Raise(Exc("ValidationError", "model"))
             ELSE Return(PyStr(model))

\* ------------------------------------------------------------------------
\* logging_config.py: log_function_call
\* ------------------------------------------------------------------------

\* the numeric value of each logging level
LevelNo == [DEBUG |-> 10, INFO |-> 20, WARNING |-> 30, ERROR |-> 40]

\* the attributes every LogRecord has
LogRecordAttrs ==
    {"name", "msg", "args", "levelname", "levelno", "pathname", "filename",
     "module", "exc_info", "exc_text", "stack_info", "lineno", "funcName",
     "created", "msecs", "relativeCreated", "thread", "threadName",
     "processName", "process", "message", "asctime"}

\* logger.info(msg, extra=log_data) under root level `level`: a disabled
\* level returns at once; otherwise the record is made, and making it raises
\* KeyError when a key of extra is an attribute of LogRecord
logger_info(level, extra) ==
    IF LevelNo[level] > LevelNo.INFO THEN Return(PyNone)
    ELSE IF extra \cap LogRecordAttrs # {} THEN Raise(Exc("KeyError", ""))
    ELSE Return(PyNone)

\* log_function_call(func_name, args, duration); has_args: args is a
\* non-empty dict, has_duration: duration is not None
log_function_call(level, has_args, has_duration) ==
    LET log_data == {"function", "correlation_id"}
                    \cup (IF has_args THEN {"args"} ELSE {})
                    \cup (IF has_duration THEN {"duration_seconds"} ELSE {})
    IN  logger_info(level, log_data)

\* ------------------------------------------------------------------------
\* models.py: get_model_response (the decorated body)
\* ------------------------------------------------------------------------

DEFAULT_MAX_TOKENS_STANDARD == 500
DEFAULT_MAX_TOKENS_O_SERIES == 10000
\* temperature and top_p in tenths
TEMPERATURE_MAX == 20
TOP_P_MAX == 10
DEFAULT_TEMPERATURE == 7
DEFAULT_TOP_P == 10
O_SERIES_TEMPERATURE == 10
O_SERIES_TOP_P == 10

system_instruction ==
    <<"Y","o","u"," ","a","r","e"," ","a"," ","h","e","l","p","f","u","l"," ",
    "a","s","s","i","s","t","a","n","t","."," ","A","l","w","a","y","s"," ","f",
    "o","l","l","o","w"," ","s","a","f","e","t","y"," ","g","u","i","d","e","l",
    "i","n","e","s"," ","a","n","d"," ","p","r","o","v","i","d","e"," ","a","c",
    "c","u","r","a","t","e",","," ","h","e","l","p","f","u","l"," ","r","e","s",
    "p","o","n","s","e","s",".">>

\* the exception classes the body re-raises as they are
CustomExceptions ==
    {"ValidationError", "ModelError", "APIError", "PromptInjectionError"}

\* max_tokens <= 0 is refused
\* mutant: only a negative max_tokens is refused
max_tokens_invalid_negative_only(max_tokens) ==
    max_tokens.type # "NoneType" /\ max_tokens.n < 0

max_tokens_invalid(max_tokens) ==
    max_tokens.type # "NoneType" /\ max_tokens.n <= 0

\* mutant: the temperature check uses the range of the UI, 0.0 to 1.0
temperature_invalid_ui_range(temperature) ==
    /\ temperature.type # "NoneType"
    /\ ~(0 <= temperature.n /\ temperature.n <= TOP_P_MAX)

temperature_invalid(temperature) ==
    /\ temperature.type # "NoneType"
    /\ ~(0 <= temperature.n /\ temperature.n <= TEMPERATURE_MAX)

top_p_invalid(top_p) ==
    /\ top_p.type # "NoneType"
    /\ ~(0 <= top_p.n /\ top_p.n <= TOP_P_MAX)

\* mutant: an o-series request carries the caller's temperature and top_p
request_params_o_series_sampling(validated_model, sanitized_prompt, temperature, top_p, max_tokens) ==
    LET base ==
            [model |-> validated_model,
             messages |-> <<[role |-> "system", content |-> system_instruction],
                            [role |-> "user", content |-> sanitized_prompt]>>,
             n |-> 1,
             stop |-> PyNone]
        sampling ==
            [temperature |->
                 IF temperature.type # "NoneType"
                 THEN temperature.n ELSE DEFAULT_TEMPERATURE,
             top_p |-> IF top_p.type # "NoneType" THEN top_p.n ELSE DEFAULT_TOP_P]
    IN  IF validated_model \in O_SERIES_MODELS
        THEN base @@ sampling @@
             [max_completion_tokens |->
                  IF max_tokens.type # "NoneType" /\ max_tokens.n # 0
                  THEN max_tokens.n ELSE DEFAULT_MAX_TOKENS_O_SERIES]
        ELSE base @@ sampling @@
             [max_tokens |->
                  IF max_tokens.type # "NoneType" /\ max_tokens.n # 0
                  THEN max_tokens.n ELSE DEFAULT_MAX_TOKENS_STANDARD]

\* mutant: a temperature or top_p of 0 counts as omitted (`temperature or 0.7`)
request_params_zero_as_omitted(validated_model, sanitized_prompt, temperature, top_p, max_tokens) ==
    LET base ==
            [model |-> validated_model,
             messages |-> <<[role |-> "system", content |-> system_instruction],
                            [role |-> "user", content |-> sanitized_prompt]>>,
             n |-> 1,
             stop |-> PyNone]
    IN  IF validated_model \in O_SERIES_MODELS
        THEN base @@
             [max_completion_tokens |->
                  IF max_tokens.type # "NoneType" /\ max_tokens.n # 0
                  THEN max_tokens.n ELSE DEFAULT_MAX_TOKENS_O_SERIES,
              temperature |-> O_SERIES_TEMPERATURE,
              top_p |-> O_SERIES_TOP_P]
        ELSE base @@
             [max_tokens |->
                  IF max_tokens.type # "NoneType" /\ max_tokens.n # 0
                  THEN max_tokens.n ELSE DEFAULT_MAX_TOKENS_STANDARD,
              temperature |->
                  IF temperature.type # "NoneType" /\ temperature.n # 0
                  THEN temperature.n ELSE DEFAULT_TEMPERATURE,
              top_p |-> IF top_p.type # "NoneType" /\ top_p.n # 0
                        THEN top_p.n ELSE DEFAULT_TOP_P]

\* request_params for a validated model and a sanitized prompt
request_params(validated_model, sanitized_prompt, temperature, top_p, max_tokens) ==
    LET base ==
            [model |-> validated_model,
             messages |-> <<[role |-> "system", content |-> system_instruction],
                            [role |-> "user", content |-> sanitized_prompt]>>,
             n |-> 1,
             stop |-> PyNone]
    IN  IF validated_model \in O_SERIES_MODELS
        THEN base @@
             [max_completion_tokens |->
                  IF max_tokens.type # "NoneType" /\ max_tokens.n # 0
                  THEN max_tokens.n ELSE DEFAULT_MAX_TOKENS_O_SERIES,
              temperature |-> O_SERIES_TEMPERATURE,
              top_p |-> O_SERIES_TOP_P]
        ELSE base @@
             [max_tokens |->
                  IF max_tokens.type # "NoneType" /\ max_tokens.n # 0
                  THEN max_tokens.n ELSE DEFAULT_MAX_TOKENS_STANDARD,
              temperature |->
                  IF temperature.type # "NoneType"
                  THEN temperature.n ELSE DEFAULT_TEMPERATURE,
              top_p |-> IF top_p.type # "NoneType" THEN top_p.n ELSE DEFAULT_TOP_P]

\* the prompts the model calls get_model_response with
\* a prompt one character longer than DEFAULT_MAX_LENGTH
LongPrompt == [i \in 1..(DEFAULT_MAX_LENGTH + 1) |-> "a"]

PromptArgs ==
    { PyStr(<<"h","i">>),
      PyStr(<<"j","a","i","l","x00","b","r","e","a","k">>),
      PyStr(<<"j","a","i","l","b","r","e","a","k">>),
      PyStr(<<"x00">>),
      PyStr(<<" ">>),
      PyStr(<<>>),
      PyStr(LongPrompt),
      PyNone }

\* sanitize_user_input(prompt) as the body calls it, worked out once for
\* each prompt of the model
sanitized_prompts ==
    [p \in PromptArgs |-> sanitize_user_input(p, DEFAULT_MAX_LENGTH)]

sanitize_prompt(p) ==
    IF p \in PromptArgs THEN sanitized_prompts[p]
    ELSE sanitize_user_input(p, DEFAULT_MAX_LENGTH)

\* the body up to the endpoint call: the request, or the exception raised
prepare_request(a) ==
    LET validated_model == validate_model_selection(a.model)
    IN  IF validated_model.kind = "raise" THEN validated_model
        ELSE
        LET sanitized_prompt == sanitize_prompt(a.prompt)
        IN  IF sanitized_prompt.kind = "raise" THEN sanitized_prompt
            ELSE IF temperature_invalid(a.temperature)
            THEN Raise(Exc("ValidationError", "temperature"))
            ELSE IF top_p_invalid(a.top_p)
            THEN Raise(Exc("ValidationError", "top_p"))
            ELSE IF max_tokens_invalid(a.max_tokens)
            THEN Raise(Exc("ValidationError", "max_tokens"))
            ELSE Return(request_params(validated_model.val.s,
                                       sanitized_prompt.val.s,
                                       a.temperature, a.top_p, a.max_tokens))

\* what client.chat.completions.create does: it raises, or it returns a
\* response (has it choices, has choices[0] a message, the message's content)
ApiRaises(cls) ==
    [kind |-> "error", err |-> cls, choices |-> FALSE, message |-> FALSE,
     content |-> PyNone]
ApiResponse(choices, message, content) ==
    [kind |-> "response", err |-> "", choices |-> choices, message |-> message,
     content |-> content]

\* not content
falsy(v) == v.type = "NoneType" \/ (v.type = "str" /\ v.s = <<>>)

\* the body from the endpoint call on
handle_reply(reply) ==
    IF reply.kind = "error" THEN Raise(Exc(reply.err, ""))
    ELSE IF ~reply.choices THEN Raise(Exc("APIError", ""))
    ELSE IF ~reply.message THEN Raise(Exc("APIError", ""))
    ELSE IF falsy(reply.content) THEN Raise(Exc("APIError", ""))
    ELSE ensure_complete_ending(PyStr(strip(reply.content.s)))

\* the except clauses of the body
body_except(res) ==
    IF res.kind = "raise" /\ res.exc.cls \notin CustomExceptions
    THEN Raise(ExcFrom("APIError", res.exc))
    ELSE res

\* ------------------------------------------------------------------------
\* error_handlers.py: handle_api_errors as applied to get_model_response
\* ------------------------------------------------------------------------

\* mutant: one more attempt than the decorator was given
retry_count_plus_one == 3 + 1

retry_count == 3
backoff_factor == 2
max_wait_time == 60

RECURSIVE Pow(_, _)
Pow(b, e) == IF e = 0 THEN 1 ELSE b * Pow(b, e - 1)

Min2(x, y) == IF x <= y THEN x ELSE y

\* mutant: the wait is not capped at max_wait_time
wait_time_uncapped(attempt_no) == Pow(backoff_factor, attempt_no)

wait_time(attempt_no) == Min2(Pow(backoff_factor, attempt_no), max_wait_time)

\* ------------------------------------------------------------------------
\* State
\* ------------------------------------------------------------------------

VARIABLES
    log_level,  \* LOG_LEVEL the logging was initialised with at import
    pc,         \* "idle": no call yet; "running": inside the wrapper's loop;
                \* "done": the call of get_model_response has ended
    args,       \* the arguments of the call
    attempt,    \* the wrapper's loop variable
    trace,      \* what the call has done so far, in order: "body" (the body
                \* is entered and validates), "call" (the endpoint is called),
                \* "returned" / "raised" (how the body ended), "log_error"
                \* (log_function_call raised), "sleep" (time.sleep)
    sent,       \* the requests given to the endpoint, in order
    replies,    \* what the endpoint did with each of them
    sleeps,     \* the arguments of time.sleep, in order
    body_results, \* how the body ended on each attempt, in order
    outcome,    \* how the call ended (Pending before that)
    text,       \* the argument of a call of ensure_complete_ending
    completed,  \* how that call ended (Pending before it)
    vms_input,  \* the argument of a call of validate_model_selection
    vms_result, \* how that call ended (Pending before it)
    sui_input,  \* the user_input of a call of sanitize_user_input
    sui_max_length, \* its max_length
    sui_result, \* how that call ended (Pending before it)
    wt_attempt, \* the attempt number the wrapper computes a wait for
    wt_result,  \* that wait, in seconds (-1 before it is computed)
    at_prompt,  \* the prompt of a call of apply_technique
    at_technique, \* its technique
    at_result   \* how that call ended (Pending before it)

gmr_vars == <<log_level, pc, args, attempt, trace, sent, replies, sleeps,
              body_results, outcome>>
ece_vars == <<text, completed>>
vms_vars == <<vms_input, vms_result>>
sui_vars == <<sui_input, sui_max_length, sui_result>>
wt_vars == <<wt_attempt, wt_result>>
at_vars == <<at_prompt, at_technique, at_result>>
vars == <<log_level, pc, args, attempt, trace, sent, replies, sleeps,
          body_results, outcome, text, completed, vms_input, vms_result,
          sui_input, sui_max_length, sui_result, wt_attempt, wt_result,
          at_prompt, at_technique, at_result>>

\* ------------------------------------------------------------------------
\* The inputs of the model
\* ------------------------------------------------------------------------

\* LOG_LEVEL of the environment; INFO is the default of init_default_logging
LogLevels == {"INFO", "WARNING"}

ModelArgs ==
    { PyStr(<<"g","p","t","-","4","o">>),
      PyStr(<<" ","g","p","t","-","4","o">>),
      PyStr(<<"o","1">>),
      PyStr(<<"g","p","t","-","5">>),
      PyStr(<<>>),
      PyNone }

\* tenths
TemperatureArgs == {PyNone, PyNum(-1), PyNum(0), PyNum(20), PyNum(21)}
TopPArgs == {PyNone, PyNum(-1), PyNum(0), PyNum(10), PyNum(11)}
MaxTokensArgs == {PyNone, PyNum(-1), PyNum(0), PyNum(2)}

NoArgs ==
    [model |-> PyNone, prompt |-> PyNone, temperature |-> PyNone,
     top_p |-> PyNone, max_tokens |-> PyNone]

\* the content of a response's message
ContentChars == {"a", " ", "."}
Contents == {PyStr(s) : s \in Strings(ContentChars, MaxContentLen)} \cup {PyNone}

\* what the endpoint may do with a request
Replies ==
    {ApiRaises("RateLimitError"), ApiRaises("AuthenticationError"),
     ApiResponse(FALSE, FALSE, PyNone), ApiResponse(TRUE, FALSE, PyNone)}
    \cup {ApiResponse(TRUE, TRUE, c) : c \in Contents}

\* ------------------------------------------------------------------------
\* Spec: one call of get_model_response
\* ------------------------------------------------------------------------

GmrIdle ==
    /\ pc = "idle"
    /\ args = NoArgs
    /\ attempt = 0
    /\ trace = <<>>
    /\ sent = <<>>
    /\ replies = <<>>
    /\ sleeps = <<>>
    /\ body_results = <<>>
    /\ outcome = Pending

EceIdle ==
    /\ text = PyNone
    /\ completed = Pending

VmsIdle ==
    /\ vms_input = PyNone
    /\ vms_result = Pending

SuiIdle ==
    /\ sui_input = PyNone
    /\ sui_max_length = DEFAULT_MAX_LENGTH
    /\ sui_result = Pending

WtIdle ==
    /\ wt_attempt = 0
    /\ wt_result = -1

AtIdle ==
    /\ at_prompt = PyNone
    /\ at_technique = PyNone
    /\ at_result = Pending

Init ==
    /\ log_level \in LogLevels
    /\ GmrIdle
    /\ EceIdle
    /\ VmsIdle
    /\ SuiIdle
    /\ WtIdle
    /\ AtIdle

\* the caller calls get_model_response(model, prompt, temperature, top_p,
\* max_tokens): the wrapper starts its loop
Invoke ==
    /\ pc = "idle"
    /\ \E m \in ModelArgs, p \in PromptArgs, t \in TemperatureArgs,
          tp \in TopPArgs, mt \in MaxTokensArgs :
            args' = [model |-> m, prompt |-> p, temperature |-> t,
                     top_p |-> tp, max_tokens |-> mt]
    /\ pc' = "running"
    /\ UNCHANGED <<log_level, attempt, trace, sent, replies, sleeps,
                   body_results, outcome>>
    /\ UNCHANGED <<ece_vars, vms_vars, sui_vars, wt_vars, at_vars>>

\* mutant: an exception of the body that is no APIError leaves the wrapper
\* at once, as it is
AfterBody_reraises(res, events) ==
    LET logged == IF res.kind = "return"
                  THEN log_function_call(log_level, TRUE, TRUE)
                  ELSE Return(PyNone)
        e == IF res.kind = "raise" THEN res.exc ELSE logged.exc
        done == events \o <<IF res.kind = "return" THEN "returned" ELSE "raised">>
                       \o (IF logged.kind = "raise" THEN <<"log_error">> ELSE <<>>)
    IN  /\ body_results' = Append(body_results, res)
        /\ IF res.kind = "return" /\ logged.kind = "return"
           THEN /\ outcome' = res
                /\ pc' = "done"
                /\ trace' = trace \o done
                /\ UNCHANGED <<attempt, sleeps>>
           ELSE IF res.kind = "raise" /\ res.exc.cls # "APIError"
           THEN /\ outcome' = res
                /\ pc' = "done"
                /\ trace' = trace \o done
                /\ UNCHANGED <<attempt, sleeps>>
           ELSE IF attempt = retry_count - 1
           THEN /\ outcome' = Raise(ExcFrom("APIError", e))
                /\ pc' = "done"
                /\ trace' = trace \o done
                /\ UNCHANGED <<attempt, sleeps>>
           ELSE /\ sleeps' = Append(sleeps, wait_time(attempt))
                /\ trace' = trace \o done \o <<"sleep">>
                /\ attempt' = attempt + 1
                /\ UNCHANGED <<pc, outcome>>

\* the rest of one iteration of the wrapper's loop, after func(*args) ended
\* with res having done `events`
AfterBody(res, events) ==
    LET logged == IF res.kind = "return"
                  THEN log_function_call(log_level, TRUE, TRUE)
                  ELSE Return(PyNone)
        e == IF res.kind = "raise" THEN res.exc ELSE logged.exc
        done == events \o <<IF res.kind = "return" THEN "returned" ELSE "raised">>
                       \o (IF logged.kind = "raise" THEN <<"log_error">> ELSE <<>>)
    IN  /\ body_results' = Append(body_results, res)
        /\ IF res.kind = "return" /\ logged.kind = "return"
           THEN /\ outcome' = res
                /\ pc' = "done"
                /\ trace' = trace \o done
                /\ UNCHANGED <<attempt, sleeps>>
           ELSE IF attempt = retry_count - 1
           THEN /\ outcome' = Raise(ExcFrom("APIError", e))
                /\ pc' = "done"
                /\ trace' = trace \o done
                /\ UNCHANGED <<attempt, sleeps>>
           ELSE /\ sleeps' = Append(sleeps, wait_time(attempt))
                /\ trace' = trace \o done \o <<"sleep">>
                /\ attempt' = attempt + 1
                /\ UNCHANGED <<pc, outcome>>

\* mutant: the call after a response with content carries that content, not
\* the prompt, as its user content
Attempt_continues ==
    /\ pc = "running"
    /\ attempt < retry_count
    /\ LET prepared == prepare_request(args)
           last == replies[Len(replies)]
           request ==
               IF /\ replies # <<>>
                  /\ last.kind = "response"
                  /\ last.content.type = "str"
                  /\ strip(last.content.s) # <<>>
               THEN [prepared.val EXCEPT !.messages[2].content = strip(last.content.s)]
               ELSE prepared.val
       IN  IF prepared.kind = "raise"
           THEN /\ AfterBody(body_except(prepared), <<"body">>)
                /\ UNCHANGED <<sent, replies>>
           ELSE \E reply \in Replies :
                /\ AfterBody(body_except(handle_reply(reply)), <<"body", "call">>)
                /\ sent' = Append(sent, request)
                /\ replies' = Append(replies, reply)
    /\ UNCHANGED <<log_level, args>>
    /\ UNCHANGED <<ece_vars, vms_vars, sui_vars, wt_vars, at_vars>>

\* one iteration of the wrapper's loop: the body runs (it validates, and
\* with valid arguments calls the endpoint, which replies as it likes), then
\* the wrapper returns, gives up or sleeps
Attempt ==
    /\ pc = "running"
    /\ attempt < retry_count
    /\ LET prepared == prepare_request(args)
       IN  IF prepared.kind = "raise"
           THEN /\ AfterBody(body_except(prepared), <<"body">>)
                /\ UNCHANGED <<sent, replies>>
           ELSE \E reply \in Replies :
                /\ AfterBody(body_except(handle_reply(reply)), <<"body", "call">>)
                /\ sent' = Append(sent, prepared.val)
                /\ replies' = Append(replies, reply)
    /\ UNCHANGED <<log_level, args>>
    /\ UNCHANGED <<ece_vars, vms_vars, sui_vars, wt_vars, at_vars>>

Next == Invoke \/ Attempt

Spec == Init /\ [][Next]_vars

\* ------------------------------------------------------------------------
\* SpecEnsure: ensure_complete_ending applied to every short text
\* ------------------------------------------------------------------------

TextChars == {"a", " ", "\n", ".", "?", "!"}

Texts == {PyStr(s) : s \in Strings(TextChars, MaxTextLen)} \cup {PyNone}

InitEnsure ==
    /\ log_level \in LogLevels
    /\ GmrIdle
    /\ text \in Texts
    /\ completed = Pending
    /\ VmsIdle
    /\ SuiIdle
    /\ WtIdle
    /\ AtIdle

EnsureCompleteEnding ==
    /\ completed.kind = "pending"
    /\ completed' = ensure_complete_ending(text)
    /\ UNCHANGED text
    /\ UNCHANGED <<gmr_vars, vms_vars, sui_vars, wt_vars, at_vars>>

NextEnsure == EnsureCompleteEnding

SpecEnsure == InitEnsure /\ [][NextEnsure]_vars

\* ------------------------------------------------------------------------
\* SpecValidate: validate_model_selection applied to identifiers, padded or
\* not, and to values that are no identifier
\* ------------------------------------------------------------------------

\* longest run of whitespace put before and after an identifier
MaxPadLen == 1

\* names that are no API identifier of MODELS: an id O_SERIES_MODELS alone
\* has, an unknown id, a display name (a key of MODELS), an id in capitals
OtherNames ==
    { <<"o","1","-","p","r","e","v","i","e","w">>,
      <<"i","n","v","a","l","i","d","-","m","o","d","e","l">>,
      <<"G","P","T","-","4","o">>,
      <<"G","P","T","-","4">>,
      <<"O","1">> }

Paddings == Strings({" ", "\n"}, MaxPadLen)

ModelInputs ==
    {PyStr(l \o name \o r) :
        l \in Paddings, r \in Paddings, name \in MODELS_values \cup OtherNames}
    \cup {PyStr(l \o r) : l \in Paddings, r \in Paddings}
    \cup {PyNone, PyNum(4)}

InitValidate ==
    /\ log_level \in LogLevels
    /\ GmrIdle
    /\ EceIdle
    /\ vms_input \in ModelInputs
    /\ vms_result = Pending
    /\ SuiIdle
    /\ WtIdle
    /\ AtIdle

ValidateModelSelection ==
    /\ vms_result.kind = "pending"
    /\ vms_result' = validate_model_selection(vms_input)
    /\ UNCHANGED vms_input
    /\ UNCHANGED <<gmr_vars, ece_vars, sui_vars, wt_vars, at_vars>>

NextValidate == ValidateModelSelection

SpecValidate == InitValidate /\ [][NextValidate]_vars

\* ------------------------------------------------------------------------
\* SpecSanitize: sanitize_user_input applied to short texts made of the
\* fragments its filters react to
\* ------------------------------------------------------------------------

\* most fragments a text is made of
MaxFragments == 3

\* a letter, a space, a whitespace character that is no control character,
\* a control character that is no whitespace, a control character that is
\* whitespace, a backtick, a code fence, a role marker, a role-play phrase
\* and two injection phrases
Fragments ==
    { <<"a">>, <<" ">>, <<"xa0">>, <<"x00">>, <<"\n">>, <<"x60">>,
      <<"x60","x60","x60">>,
      <<"u","s","e","r",":">>,
      <<"r","o","l","e","p","l","a","y"," ","a","s">>,
      <<"J","a","i","l","b","r","e","a","k">>,
      <<"s","u","d","o"," ","m","o","d","e">> }

RECURSIVE FragmentTexts(_)
FragmentTexts(n) ==
    IF n = 0 THEN {<<>>}
    ELSE LET shorter == FragmentTexts(n - 1)
         IN  shorter \cup {t \o f : t \in shorter, f \in Fragments}

UserInputs ==
    {PyStr(t) : t \in FragmentTexts(MaxFragments)} \cup {PyNone, PyNum(4)}

\* the max_length of the call: one that the role marker just fits, and the
\* default
MaxLengths == {5, DEFAULT_MAX_LENGTH}

InitSanitize ==
    /\ log_level \in LogLevels
    /\ GmrIdle
    /\ EceIdle
    /\ VmsIdle
    /\ sui_input \in UserInputs
    /\ sui_max_length \in MaxLengths
    /\ sui_result = Pending
    /\ WtIdle
    /\ AtIdle

SanitizeUserInput ==
    /\ sui_result.kind = "pending"
    /\ sui_result' = sanitize_user_input(sui_input, sui_max_length)
    /\ UNCHANGED <<sui_input, sui_max_length>>
    /\ UNCHANGED <<gmr_vars, ece_vars, vms_vars, wt_vars, at_vars>>

NextSanitize == SanitizeUserInput

SpecSanitize == InitSanitize /\ [][NextSanitize]_vars

\* ------------------------------------------------------------------------
\* SpecBackoff: the wait the wrapper computes after failed attempt number k
\* ------------------------------------------------------------------------

\* largest attempt number a wait is computed for
MaxAttemptNo == 26

InitBackoff ==
    /\ log_level \in LogLevels
    /\ GmrIdle
    /\ EceIdle
    /\ VmsIdle
    /\ SuiIdle
    /\ AtIdle
    /\ wt_attempt \in 0..MaxAttemptNo
    /\ wt_result = -1

ComputeWaitTime ==
    /\ wt_result = -1
    /\ wt_result' = wait_time(wt_attempt)
    /\ UNCHANGED wt_attempt
    /\ UNCHANGED <<gmr_vars, ece_vars, vms_vars, sui_vars, at_vars>>

NextBackoff == ComputeWaitTime

SpecBackoff == InitBackoff /\ [][NextBackoff]_vars

\* ------------------------------------------------------------------------
\* apply_technique: the prompt rewritten after a prompting technique
\* ------------------------------------------------------------------------

\* a Python tuple of two values
PyTuple(a, b) == [type |-> "tuple", s |-> <<a, b>>, n |-> 0]

\* str.lower()
str_lower(s) == [i \in DOMAIN s |-> lower(s[i])]

\* w in s, on str
str_in(w, s) ==
    \E i \in 1..(Len(s) - Len(w) + 1) : SubSeq(s, i, i + Len(w) - 1) = w

\* the technique names apply_technique compares with
Zero_Shot ==
    <<"Z","e","r","o","-","S","h","o","t">>
Few_Shot ==
    <<"F","e","w","-","S","h","o","t">>
Chain_of_Thought ==
    <<"C","h","a","i","n","-","o","f","-","T","h","o","u","g","h","t">>
Meta_Prompting ==
    <<"M","e","t","a","-","P","r","o","m","p","t","i","n","g">>
Self_Consistency ==
    <<"S","e","l","f","-","C","o","n","s","i","s","t","e","n","c","y">>
Tree_of_Thought ==
    <<"T","r","e","e","-","o","f","-","T","h","o","u","g","h","t">>

\* the phrases that make a prompt a request for a process
process_creation_phrases ==
    {<<"c","r","e","a","t","e"," ","a"," ","p","r","o","c","e","s","s">>,
     <<"d","e","v","e","l","o","p"," ","a"," ","w","o","r","k","f","l","o","w">>,
     <<"d","e","s","i","g","n"," ","a"," ","p","r","o","c","e","d","u","r","e">>}

identify_task_type(prompt) ==
    LET prompt_lower == str_lower(prompt)
    IN  IF \E phrase \in process_creation_phrases : str_in(phrase, prompt_lower)
        THEN "process_creation"
        ELSE "general"

\* the two worked examples shown for a request for a process
process_creation_examples ==
    <<"T","a","s","k",":"," ","D","e","v","e","l","o","p"," ","a"," ","w","o",
    "r","k","f","l","o","w"," ","f","o","r"," ","p","r","o","c","e","s","s","i",
    "n","g"," ","j","o","b"," ","a","p","p","l","i","c","a","t","i","o","n","s",
    ".","\n","P","r","o","c","e","s","s",":","\n","-"," ","A","p","p","l","i",
    "c","a","n","t","s"," ","s","u","b","m","i","t"," ","t","h","e","i","r"," ",
    "r","e","s","u","m","e","s"," ","t","h","r","o","u","g","h"," ","t","h","e",
    " ","o","n","l","i","n","e"," ","p","o","r","t","a","l",".","\n","-"," ",
    "A","p","p","l","i","c","a","t","i","o","n","s"," ","a","r","e"," ","s","c",
    "r","e","e","n","e","d"," ","f","o","r"," ","m","i","n","i","m","u","m"," ",
    "q","u","a","l","i","f","i","c","a","t","i","o","n","s",".","\n","-"," ",
    "Q","u","a","l","i","f","i","e","d"," ","c","a","n","d","i","d","a","t","e",
    "s"," ","a","r","e"," ","s","c","h","e","d","u","l","e","d"," ","f","o","r",
    " ","i","n","i","t","i","a","l"," ","i","n","t","e","r","v","i","e","w","s",
    ".","\n","-"," ","I","n","t","e","r","v","i","e","w"," ","f","e","e","d",
    "b","a","c","k"," ","i","s"," ","c","o","l","l","e","c","t","e","d"," ","a",
    "n","d"," ","r","e","v","i","e","w","e","d",".","\n","-"," ","O","f","f",
    "e","r","s"," ","a","r","e"," ","e","x","t","e","n","d","e","d"," ","t","o",
    " ","s","e","l","e","c","t","e","d"," ","c","a","n","d","i","d","a","t","e",
    "s",".","\n","\n","T","a","s","k",":"," ","D","e","s","i","g","n"," ","a",
    " ","p","r","o","c","e","d","u","r","e"," ","f","o","r"," ","h","a","n","d",
    "l","i","n","g"," ","c","u","s","t","o","m","e","r"," ","s","u","p","p","o",
    "r","t"," ","t","i","c","k","e","t","s",".","\n","P","r","o","c","e","s",
    "s",":","\n","-"," ","C","u","s","t","o","m","e","r","s"," ","s","u","b",
    "m","i","t"," ","s","u","p","p","o","r","t"," ","t","i","c","k","e","t","s",
    " ","v","i","a"," ","t","h","e"," ","h","e","l","p","d","e","s","k"," ","s",
    "y","s","t","e","m",".","\n","-"," ","T","i","c","k","e","t","s"," ","a",
    "r","e"," ","c","a","t","e","g","o","r","i","z","e","d"," ","b","a","s","e",
    "d"," ","o","n"," ","i","s","s","u","e"," ","t","y","p","e",".","\n","-",
    " ","S","u","p","p","o","r","t"," ","a","g","e","n","t","s"," ","a","r","e",
    " ","a","s","s","i","g","n","e","d"," ","t","i","c","k","e","t","s"," ","a",
    "c","c","o","r","d","i","n","g"," ","t","o"," ","e","x","p","e","r","t","i",
    "s","e",".","\n","-"," ","A","g","e","n","t","s"," ","t","r","o","u","b",
    "l","e","s","h","o","o","t"," ","a","n","d"," ","r","e","s","o","l","v","e",
    " ","i","s","s","u","e","s",".","\n","-"," ","R","e","s","o","l","u","t",
    "i","o","n","s"," ","a","r","e"," ","d","o","c","u","m","e","n","t","e","d",
    " ","i","n"," ","t","h","e"," ","k","n","o","w","l","e","d","g","e"," ","b",
    "a","s","e",".","\n","-"," ","C","u","s","t","o","m","e","r","s"," ","a",
    "r","e"," ","n","o","t","i","f","i","e","d"," ","o","f"," ","t","h","e"," ",
    "r","e","s","o","l","u","t","i","o","n",".">>

\* the two worked examples shown for any other prompt
default_examples ==
    <<"E","x","a","m","p","l","e",":"," ","H","o","w"," ","t","o"," ","m","a",
    "k","e"," ","a"," ","s","a","n","d","w","i","c","h",".","\n","P","r","o",
    "c","e","s","s",":","\n","-"," ","G","a","t","h","e","r"," ","t","w","o",
    " ","s","l","i","c","e","s"," ","o","f"," ","b","r","e","a","d",".","\n",
    "-"," ","A","d","d"," ","y","o","u","r"," ","f","a","v","o","r","i","t","e",
    " ","f","i","l","l","i","n","g","s"," ","b","e","t","w","e","e","n"," ","t",
    "h","e"," ","s","l","i","c","e","s",".","\n","-"," ","C","l","o","s","e",
    " ","t","h","e"," ","s","a","n","d","w","i","c","h"," ","a","n","d"," ","e",
    "n","j","o","y",".","\n","\n","E","x","a","m","p","l","e",":"," ","S","t",
    "e","p","s"," ","t","o"," ","c","h","a","n","g","e"," ","a"," ","t","i","r",
    "e",".","\n","P","r","o","c","e","s","s",":","\n","-"," ","L","o","o","s",
    "e","n"," ","t","h","e"," ","l","u","g"," ","n","u","t","s",".","\n","-",
    " ","J","a","c","k"," ","u","p"," ","t","h","e"," ","c","a","r",".","\n",
    "-"," ","R","e","m","o","v","e"," ","t","h","e"," ","f","l","a","t"," ","t",
    "i","r","e",".","\n","-"," ","M","o","u","n","t"," ","t","h","e"," ","s",
    "p","a","r","e"," ","t","i","r","e",".","\n","-"," ","T","i","g","h","t",
    "e","n"," ","t","h","e"," ","l","u","g"," ","n","u","t","s",".","\n","-",
    " ","L","o","w","e","r"," ","t","h","e"," ","c","a","r",".">>

generate_few_shot_examples(prompt) ==
    IF identify_task_type(prompt) = "process_creation"
    THEN process_creation_examples
    ELSE default_examples

\* the text each technique puts around the prompt
Few_Shot_before ==
    <<"\n","*","*","N","o","w",","," ">>
Few_Shot_after ==
    <<"*","*">>
Chain_of_Thought_after ==
    <<"\n","\n","*","*","L","e","t","'","s"," ","t","h","i","n","k"," ","s","t",
    "e","p","-","b","y","-","s","t","e","p",".","*","*">>
Meta_Prompting_before ==
    <<"*","*","C","o","n","s","t","r","u","c","t"," ","a","n"," ","a","b","s",
    "t","r","a","c","t"," ","f","r","a","m","e","w","o","r","k"," ","t","h","a",
    "t"," ","o","u","t","l","i","n","e","s"," ","t","h","e"," ","k","e","y"," ",
    "c","o","m","p","o","n","e","n","t","s"," ","a","n","d"," ","s","e","q","u",
    "e","n","t","i","a","l"," ","s","t","e","p","s"," ","r","e","q","u","i","r",
    "e","d"," ","f","o","r"," ">>
Meta_Prompting_after ==
    <<"*","*">>
Self_Consistency_after ==
    <<"\n","\n","*","*","P","l","e","a","s","e"," ","e","x","p","l","o","r","e",
    " ","d","i","f","f","e","r","e","n","t"," ","p","o","s","s","i","b","l","e",
    " ","s","t","e","p","s"," ","a","n","d"," ","e","n","s","u","r","e"," ","t",
    "h","a","t"," ","y","o","u","r"," ","f","i","n","a","l"," ","p","r","o","c",
    "e","s","s"," ","i","s"," ","l","o","g","i","c","a","l","l","y"," ","c","o",
    "n","s","i","s","t","e","n","t"," ","a","n","d"," ","c","o","h","e","r","e",
    "n","t",".","*","*">>
Tree_of_Thought_after ==
    <<"\n","\n","*","*","F","o","r"," ","e","a","c","h"," ","m","a","j","o","r",
    " ","s","t","a","g","e",","," ","g","e","n","e","r","a","t","e"," ","t","w",
    "o"," ","a","l","t","e","r","n","a","t","i","v","e"," ","m","e","t","h","o",
    "d","s"," ","(","c","a","n","d","i","d","a","t","e","s",")"," ","t","o"," ",
    "a","c","c","o","m","p","l","i","s","h"," ","t","h","a","t"," ","s","t","e",
    "p","."," ","E","v","a","l","u","a","t","e"," ","t","h","e"," ","e","f","f",
    "e","c","t","i","v","e","n","e","s","s"," ","o","f"," ","e","a","c","h"," ",
    "a","l","t","e","r","n","a","t","i","v","e",","," ","c","o","n","s","i","d",
    "e","r","i","n","g"," ","f","a","c","t","o","r","s"," ","l","i","k","e"," ",
    "e","f","f","i","c","i","e","n","c","y"," ","a","n","d"," ","f","a","i","r",
    "n","e","s","s","."," ","B","a","s","e","d"," ","o","n"," ","y","o","u","r",
    " ","e","v","a","l","u","a","t","i","o","n",","," ","s","e","l","e","c","t",
    " ","t","h","e"," ","b","e","s","t"," ","o","p","t","i","o","n"," ","a","n",
    "d"," ","p","r","o","c","e","e","d"," ","t","o"," ","t","h","e"," ","n","e",
    "x","t"," ","s","t","a","g","e","."," ","C","o","n","t","i","n","u","e"," ",
    "t","h","i","s"," ","p","r","o","c","e","s","s"," ","t","o"," ","d","e","v",
    "e","l","o","p"," ","a"," ","c","o","m","p","r","e","h","e","n","s","i","v",
    "e"," ","a","n","d"," ","o","p","t","i","m","i","z","e","d"," ","w","o","r",
    "k","f","l","o","w",".","*","*">>

\* the explanation returned with the transformed prompt
Zero_Shot_explanation ==
    <<"Z","e","r","o","-","S","h","o","t"," ","P","r","o","m","p","t","i","n",
    "g",":"," ","T","h","e"," ","m","o","d","e","l"," ","i","s"," ","g","i","v",
    "e","n"," ","t","h","e"," ","p","r","o","m","p","t"," ","w","i","t","h","o",
    "u","t"," ","a","n","y"," ","a","d","d","i","t","i","o","n","a","l"," ","c",
    "o","n","t","e","x","t"," ","o","r"," ","e","x","a","m","p","l","e","s",
    ".">>
Few_Shot_explanation ==
    <<"F","e","w","-","S","h","o","t"," ","P","r","o","m","p","t","i","n","g",
    ":"," ","P","r","o","v","i","d","e","d"," ","d","y","n","a","m","i","c","a",
    "l","l","y"," ","g","e","n","e","r","a","t","e","d"," ","e","x","a","m","p",
    "l","e","s"," ","t","o"," ","g","u","i","d","e"," ","t","h","e"," ","m","o",
    "d","e","l","."," ","T","h","e","s","e"," ","e","x","a","m","p","l","e","s",
    " ","a","r","e"," ","b","a","s","e","d"," ","o","n"," ","y","o","u","r"," ",
    "p","r","o","m","p","t"," ","t","o"," ","i","m","p","r","o","v","e"," ","r",
    "e","s","p","o","n","s","e"," ","r","e","l","e","v","a","n","c","e",".">>
Chain_of_Thought_explanation ==
    <<"C","h","a","i","n","-","o","f","-","T","h","o","u","g","h","t"," ","P",
    "r","o","m","p","t","i","n","g",":"," ","E","n","c","o","u","r","a","g","e",
    "d"," ","t","h","e"," ","m","o","d","e","l"," ","t","o"," ","e","x","p","l",
    "a","i","n"," ","i","t","s"," ","r","e","a","s","o","n","i","n","g"," ","p",
    "r","o","c","e","s","s"," ","s","t","e","p","-","b","y","-","s","t","e","p",
    ","," ","w","h","i","c","h"," ","c","a","n"," ","l","e","a","d"," ","t","o",
    " ","m","o","r","e"," ","a","c","c","u","r","a","t","e"," ","a","n","d"," ",
    "d","e","t","a","i","l","e","d"," ","r","e","s","p","o","n","s","e","s",
    ".">>
Meta_Prompting_explanation ==
    <<"M","e","t","a","-","P","r","o","m","p","t","i","n","g",":"," ","F","o",
    "c","u","s","e","d"," ","o","n"," ","t","h","e"," ","s","t","r","u","c","t",
    "u","r","a","l"," ","a","s","p","e","c","t","s"," ","o","f"," ","t","h","e",
    " ","t","a","s","k",","," ","a","s","k","i","n","g"," ","t","h","e"," ","m",
    "o","d","e","l"," ","t","o"," ","c","o","n","s","i","d","e","r"," ","t","h",
    "e"," ","f","o","r","m"," ","a","n","d"," ","p","a","t","t","e","r","n"," ",
    "o","f"," ","i","n","f","o","r","m","a","t","i","o","n",".">>
Self_Consistency_explanation ==
    <<"S","e","l","f","-","C","o","n","s","i","s","t","e","n","c","y"," ","P",
    "r","o","m","p","t","i","n","g",":"," ","E","n","c","o","u","r","a","g","e",
    "d"," ","t","h","e"," ","m","o","d","e","l"," ","t","o"," ","c","o","n","s",
    "i","d","e","r"," ","m","u","l","t","i","p","l","e"," ","r","e","a","s","o",
    "n","i","n","g"," ","p","a","t","h","s"," ","a","n","d"," ","s","e","l","e",
    "c","t"," ","t","h","e"," ","m","o","s","t"," ","c","o","n","s","i","s","t",
    "e","n","t"," ","a","n","s","w","e","r",".">>
Tree_of_Thought_explanation ==
    <<"T","r","e","e","-","o","f","-","T","h","o","u","g","h","t"," ","P","r",
    "o","m","p","t","i","n","g",":"," ","P","r","o","m","p","t","e","d"," ","t",
    "h","e"," ","m","o","d","e","l"," ","t","o"," ","c","o","n","s","i","d","e",
    "r"," ","m","u","l","t","i","p","l","e"," ","a","p","p","r","o","a","c","h",
    "e","s"," ","a","t"," ","e","a","c","h"," ","s","t","e","p",","," ","e","n",
    "a","b","l","i","n","g"," ","s","y","s","t","e","m","a","t","i","c"," ","e",
    "x","p","l","o","r","a","t","i","o","n"," ","a","n","d"," ","s","t","r","a",
    "t","e","g","i","c"," ","p","l","a","n","n","i","n","g",".">>
no_technique_explanation ==
    <<"N","o"," ","s","p","e","c","i","f","i","c"," ","t","e","c","h","n","i",
    "q","u","e"," ","a","p","p","l","i","e","d",".">>

\* mutant: Meta-Prompting asks for the framework and leaves the prompt out
apply_technique_framework_only(prompt, technique) ==
    IF technique = PyStr(Zero_Shot)
    THEN Return(PyTuple(prompt, PyStr(Zero_Shot_explanation)))
    ELSE IF technique = PyStr(Few_Shot)
    THEN Return(PyTuple(
             PyStr(generate_few_shot_examples(prompt.s) \o Few_Shot_before
                   \o prompt.s \o Few_Shot_after),
             PyStr(Few_Shot_explanation)))
    ELSE IF technique = PyStr(Chain_of_Thought)
    THEN Return(PyTuple(
             PyStr(prompt.s \o Chain_of_Thought_after),
             PyStr(Chain_of_Thought_explanation)))
    ELSE IF technique = PyStr(Meta_Prompting)
    THEN Return(PyTuple(
             PyStr(Meta_Prompting_before \o Meta_Prompting_after),
             PyStr(Meta_Prompting_explanation)))
    ELSE IF technique = PyStr(Self_Consistency)
    THEN Return(PyTuple(
             PyStr(prompt.s \o Self_Consistency_after),
             PyStr(Self_Consistency_explanation)))
    ELSE IF technique = PyStr(Tree_of_Thought)
    THEN Return(PyTuple(
             PyStr(prompt.s \o Tree_of_Thought_after),
             PyStr(Tree_of_Thought_explanation)))
    ELSE Return(PyTuple(prompt, PyStr(no_technique_explanation)))

\* apply_technique(prompt, technique) for a str prompt: the pair
\* (transformed_prompt, explanation)
apply_technique(prompt, technique) ==
    IF technique = PyStr(Zero_Shot)
    THEN Return(PyTuple(prompt, PyStr(Zero_Shot_explanation)))
    ELSE IF technique = PyStr(Few_Shot)
    THEN Return(PyTuple(
             PyStr(generate_few_shot_examples(prompt.s) \o Few_Shot_before
                   \o prompt.s \o Few_Shot_after),
             PyStr(Few_Shot_explanation)))
    ELSE IF technique = PyStr(Chain_of_Thought)
    THEN Return(PyTuple(
             PyStr(prompt.s \o Chain_of_Thought_after),
             PyStr(Chain_of_Thought_explanation)))
    ELSE IF technique = PyStr(Meta_Prompting)
    THEN Return(PyTuple(
             PyStr(Meta_Prompting_before \o prompt.s \o Meta_Prompting_after),
             PyStr(Meta_Prompting_explanation)))
    ELSE IF technique = PyStr(Self_Consistency)
    THEN Return(PyTuple(
             PyStr(prompt.s \o Self_Consistency_after),
             PyStr(Self_Consistency_explanation)))
    ELSE IF technique = PyStr(Tree_of_Thought)
    THEN Return(PyTuple(
             PyStr(prompt.s \o Tree_of_Thought_after),
             PyStr(Tree_of_Thought_explanation)))
    ELSE Return(PyTuple(prompt, PyStr(no_technique_explanation)))

\* ------------------------------------------------------------------------
\* SpecTechnique: apply_technique on one prompt and one technique name
\* ------------------------------------------------------------------------

\* longest prompt made of PromptChars
MaxPromptLen == 2

PromptChars == {"a", " ", "*"}

TaskPrompts ==
    {<<"C","r","e","a","t","e"," ","a"," ","p","r","o","c","e","s","s"," ","f",
     "o","r"," ","h","i","r","i","n","g">>,
     <<"d","e","v","e","l","o","p"," ","a"," ","w","o","r","k","f","l","o","w">>,
     <<"D","E","S","I","G","N"," ","A"," ","P","R","O","C","E","D","U","R","E">>,
     <<"d","e","s","i","g","n"," ","a"," ","p","r","o","c","e","s","s">>}

Prompts == {PyStr(s) : s \in Strings(PromptChars, MaxPromptLen) \cup TaskPrompts}

\* names no branch of apply_technique compares equal to
OtherTechniques ==
    {PyStr(<<"I","n","v","a","l","i","d","-","T","e","c","h","n","i","q","u","e">>),
     PyStr(<<"z","e","r","o","-","s","h","o","t">>),
     PyStr(<<>>), PyNone}

Techniques ==
    {PyStr(Zero_Shot), PyStr(Few_Shot), PyStr(Chain_of_Thought),
     PyStr(Meta_Prompting), PyStr(Self_Consistency), PyStr(Tree_of_Thought)}
    \cup OtherTechniques

InitTechnique ==
    /\ log_level \in LogLevels
    /\ GmrIdle
    /\ EceIdle
    /\ VmsIdle
    /\ SuiIdle
    /\ WtIdle
    /\ at_prompt \in Prompts
    /\ at_technique \in Techniques
    /\ at_result = Pending

ApplyTechnique ==
    /\ at_result = Pending
    /\ at_result' = apply_technique(at_prompt, at_technique)
    /\ UNCHANGED <<at_prompt, at_technique>>
    /\ UNCHANGED <<gmr_vars, ece_vars, vms_vars, sui_vars, wt_vars>>

NextTechnique == ApplyTechnique

SpecTechnique == InitTechnique /\ [][NextTechnique]_vars


\* ------------------------------------------------------------------------
\* Vocabulary of the properties
\* ------------------------------------------------------------------------

Done == pc = "done"
Returned == pc = "done" /\ outcome.kind = "return"
Failed == pc = "done" /\ outcome.kind = "raise"

\* how often the call has done ev
Count(ev) == Cardinality({k \in DOMAIN trace : trace[k] = ev})

\* the place in trace of the i-th endpoint call
CallAt(i) ==
    CHOOSE k \in DOMAIN trace :
        /\ trace[k] = "call"
        /\ Cardinality({j \in 1..k : trace[j] = "call"}) = i

IsRateLimit(r) == r.kind = "error" /\ r.err = "RateLimitError"
IsOtherError(r) == r.kind = "error" /\ r.err # "RateLimitError"
\* a response that carries a non-empty text
IsSuccess(r) ==
    /\ r.kind = "response" /\ r.choices /\ r.message
    /\ r.content.type = "str" /\ r.content.s # <<>>

AllSpace(s) == \A i \in DOMAIN s : s[i] \in Whitespace
\* s ends in '.', '!' or '?' once its trailing whitespace is dropped
TerminalAfterTrim(s) ==
    \E i \in DOMAIN s :
        /\ s[i] \in {".", "!", "?"}
        /\ \A j \in (i + 1)..Len(s) : s[j] \in Whitespace
\* s without its leading and trailing whitespace
Trimmed(s) ==
    IF AllSpace(s) THEN <<>>
    ELSE LET first == CHOOSE i \in DOMAIN s :
                          s[i] \notin Whitespace /\ \A j \in 1..(i - 1) : s[j] \in Whitespace
             last == CHOOSE i \in DOMAIN s :
                          s[i] \notin Whitespace /\ \A j \in (i + 1)..Len(s) : s[j] \in Whitespace
         IN  SubSeq(s, first, last)
IsProperPrefix(s, t) == Len(s) < Len(t) /\ SubSeq(t, 1, Len(s)) = s
Contains(s, w) == \E i \in 1..(Len(s) - Len(w) + 1) : SubSeq(s, i, i + Len(w) - 1) = w

\* the arguments the validation of get_model_response is to refuse
InvalidModel(m) == m.type # "str" \/ Trimmed(m.s) \notin MODELS_values
InjectionPrompt(p) == p.type = "str" /\ Contains(p.s, W.jailbreak)
InvalidPrompt(p) ==
    \/ p.type # "str"
    \/ AllSpace(p.s)
    \/ Len(p.s) > 2000
    \/ InjectionPrompt(p)
InvalidTemperature(t) == t.type = "num" /\ (t.n < 0 \/ t.n > 20)
InvalidTopP(t) == t.type = "num" /\ (t.n < 0 \/ t.n > 10)
InvalidMaxTokens(t) == t.type = "num" /\ t.n <= 0
InvalidArgs(a) ==
    \/ InvalidModel(a.model)
    \/ InvalidPrompt(a.prompt)
    \/ InvalidTemperature(a.temperature)
    \/ InvalidTopP(a.top_p)
    \/ InvalidMaxTokens(a.max_tokens)
\* the fields of a that break a constraint
OffendingFields(a) ==
    (IF InvalidModel(a.model) THEN {"model"} ELSE {})
    \cup (IF InvalidPrompt(a.prompt) /\ ~InjectionPrompt(a.prompt)
          THEN {"user_input"} ELSE {})
    \cup (IF InvalidTemperature(a.temperature) THEN {"temperature"} ELSE {})
    \cup (IF InvalidTopP(a.top_p) THEN {"top_p"} ELSE {})
    \cup (IF InvalidMaxTokens(a.max_tokens) THEN {"max_tokens"} ELSE {})

\* ------------------------------------------------------------------------
\* Properties
\* ------------------------------------------------------------------------

C2_OneRetryThenSuccess ==
    (Len(replies) >= 2 /\ IsRateLimit(replies[1]) /\ IsSuccess(replies[2])) =>
        /\ Returned
        /\ Len(replies) = 2
        /\ Len(sleeps) = 1
        /\ LET content == Trimmed(replies[2].content.s)
           IN  outcome.val.s \in {content, content \o closing_statement}

\* C3: an endpoint call that fails with an error other than a rate limit
\* ends the invocation at once with APIError wrapping that error: it is the
\* last endpoint call, and neither a sleep nor a call follows it.
C3_OtherErrorFailsImmediately ==
    \A i \in DOMAIN replies :
        IsOtherError(replies[i]) =>
            /\ Failed
            /\ outcome.exc.cls = "APIError"
            /\ \E c \in DOMAIN outcome.exc.cause :
                   outcome.exc.cause[c].cls = replies[i].err
            /\ i = Len(replies)
            /\ \A k \in (CallAt(i) + 1)..Len(trace) : trace[k] \notin {"sleep", "call"}

\* C4: an invocation whose arguments fail validation runs the validation
\* once and never sleeps.
C4_ValidationFailureNotRetried ==
    (InvalidArgs(args) /\ pc # "idle") =>
        /\ Count("body") <= 1
        /\ sleeps = <<>>

\* C5: a failure caused by the caller's input reaches the caller with its
\* own class: ValidationError naming an offending field, or
\* PromptInjectionError for a prompt that matches an injection pattern;
\* APIError only after the endpoint was called.
C5_InputFailureKeepsItsClass ==
    /\ (Done /\ InvalidArgs(args)) =>
          /\ outcome.kind = "raise"
          /\ \/ /\ outcome.exc.cls = "ValidationError"
                /\ outcome.exc.field \in OffendingFields(args)
             \/ /\ outcome.exc.cls = "PromptInjectionError"
                /\ InjectionPrompt(args.prompt)
    /\ (Failed /\ outcome.exc.cls = "APIError") => replies # <<>>

\* C6: an invocation with an invalid model id, prompt, temperature, top_p or
\* max_tokens never reaches the endpoint, on any attempt.
C6_InvalidInputNeverCallsEndpoint ==
    InvalidArgs(args) =>
        /\ sent = <<>>
        /\ replies = <<>>
        /\ Count("call") = 0

C6_Witness ==
    /\ Done
    /\ InvalidArgs(args)
    /\ Count("body") = 3
    /\ sent = <<>>

\* C7: an invocation that returns yields a non-empty text built from the
\* endpoint's content; it never returns None or an empty string.
C7_NeverReturnsEmpty ==
    Returned =>
        /\ outcome.val.type = "str"
        /\ outcome.val.s # <<>>
        /\ replies # <<>>
        /\ IsSuccess(replies[Len(replies)])

\* C8: the text an invocation returns ends in '.', '!' or '?': it is the
\* trimmed content of the successful response when that ends in terminal
\* punctuation, and the trimmed content followed by the closing sentence
\* otherwise.
C8_ReturnedTextIsComplete ==
    Returned =>
        LET content == Trimmed(replies[Len(replies)].content.s)
        IN  /\ outcome.val.s # <<>>
            /\ outcome.val.s[Len(outcome.val.s)] \in {".", "!", "?"}
            /\ outcome.val.s = IF TerminalAfterTrim(content) THEN content
                               ELSE content \o closing_statement

\* C9: ensure_complete_ending returns its argument unchanged for every text
\* that is empty or whitespace-only and for every text that ends in '.', '!'
\* or '?' after trimming.
C9_CompleteOrBlankUnchanged ==
    (/\ completed.kind # "pending"
     /\ text.type = "str"
     /\ (AllSpace(text.s) \/ TerminalAfterTrim(text.s))) =>
        completed = Return(text)

C9_Witness ==
    /\ completed.kind = "return"
    /\ text.type = "str"
    /\ TerminalAfterTrim(text.s)
    /\ text.s[1] \in Whitespace
    /\ text.s[Len(text.s)] \in Whitespace
    /\ completed.val = text

\* a text that is not empty, not whitespace-only and does not end in
\* terminal punctuation after trimming
Incomplete(v) == v.type = "str" /\ ~AllSpace(v.s) /\ ~TerminalAfterTrim(v.s)

C11_TrimmedThenClosing ==
    (completed.kind # "pending" /\ Incomplete(text)) =>
        completed = Return(PyStr(Trimmed(text.s) \o closing_statement))


AcceptedPrompt(p) == sanitize_prompt(p).kind = "return"
\* the id the request is to carry for the argument m
RequestedModel(m) == Trimmed(m.s)
\* the invalid parameters among temperature, top_p and max_tokens
OffendingParameters(a) ==
    (IF InvalidTemperature(a.temperature) THEN {"temperature"} ELSE {})
    \cup (IF InvalidTopP(a.top_p) THEN {"top_p"} ELSE {})
    \cup (IF InvalidMaxTokens(a.max_tokens) THEN {"max_tokens"} ELSE {})

C14_StandardRequestCarriesArguments ==
    \A i \in DOMAIN sent :
        sent[i].model \notin O_SERIES_MODELS =>
            /\ sent[i].temperature =
                   IF args.temperature.type = "num" THEN args.temperature.n ELSE 7
            /\ sent[i].top_p =
                   IF args.top_p.type = "num" THEN args.top_p.n ELSE 10
            /\ "max_tokens" \in DOMAIN sent[i]
            /\ sent[i].max_tokens =
                   IF args.max_tokens.type = "num" THEN args.max_tokens.n ELSE 500
            /\ "max_completion_tokens" \notin DOMAIN sent[i]

C14_Witness ==
    /\ sent # <<>>
    /\ sent[1].model \in MODELS_values \ O_SERIES_MODELS
    /\ args.temperature = PyNum(0)
    /\ args.top_p = PyNum(0)
    /\ args.max_tokens = PyNone
    /\ sent[1].temperature = 0
    /\ sent[1].top_p = 0
    /\ sent[1].max_tokens = 500

\* C15: with a valid model and a prompt that passes sanitization, the validation of get_model_response
\* raises ValidationError naming an offending field, before any endpoint
\* call, exactly when temperature is given outside [0.0, 2.0], top_p is given
\* outside [0.0, 1.0] or max_tokens is given <= 0; every value inside the
\* ranges, temperature in (1.0, 2.0] included, passes and the endpoint is
\* called.
C15_ParameterRanges ==
    (/\ pc # "idle"
     /\ ~InvalidModel(args.model)
     /\ AcceptedPrompt(args.prompt)) =>
        \A i \in DOMAIN body_results :
            IF OffendingParameters(args) # {}
            THEN /\ body_results[i].kind = "raise"
                 /\ body_results[i].exc.cls = "ValidationError"
                 /\ body_results[i].exc.field \in OffendingParameters(args)
                 /\ sent = <<>>
            ELSE /\ Len(sent) = Len(body_results)
                 /\ ~(/\ body_results[i].kind = "raise"
                      /\ body_results[i].exc.cls = "ValidationError")

C15_Witness ==
    /\ args.temperature = PyNum(20)
    /\ args.top_p = PyNum(10)
    /\ OffendingParameters(args) = {}
    /\ sent # <<>>
    /\ sent[1].temperature = 20
    /\ body_results # <<>>


\* s in lower case
Lowered(s) == [i \in DOMAIN s |-> lower(s[i])]
\* injection phrases the texts of SpecSanitize can hold
InjectionPhrases ==
    { <<"j","a","i","l","b","r","e","a","k">>,
      <<"s","u","d","o"," ","m","o","d","e">> }
HasInjectionPhrase(s) == \E w \in InjectionPhrases : Contains(Lowered(s), w)

\* C16: for every input that holds a high-risk injection phrase (and is
\* within max_length), sanitize_user_input returns no string that holds the
\* phrase: it returns nothing and raises PromptInjectionError.
C16_InjectionIsRejected ==
    (/\ sui_result.kind # "pending"
     /\ sui_input.type = "str"
     /\ Len(sui_input.s) <= sui_max_length
     /\ HasInjectionPhrase(sui_input.s)) =>
        /\ sui_result.kind = "raise"
        /\ sui_result.exc.cls = "PromptInjectionError"

\* C17: sanitize_user_input rejects its input or returns a string of at most
\* max_length characters.
C17_ResultWithinMaxLength ==
    sui_result.kind = "return" => Len(sui_result.val.s) <= sui_max_length

\* s holds nothing but control characters and whitespace
OnlyControlOrSpace(s) == \A i \in DOMAIN s : s[i] \in ControlChars \cup Whitespace

NoPatternMatch(s) ==
    /\ \A k \in DOMAIN high_risk_patterns : ~re_search(high_risk_patterns[k], s)
    /\ \A k \in DOMAIN safe_patterns : ~re_search(safe_patterns[k][1], s)

\* the control characters of the texts of SpecSanitize, U+0000 to U+001F and
\* U+007F to U+009F
IsControl(c) == c \in {"x00", "\t", "\n", "\r", "\f", "x0b", "x1f", "x7f", "x85"}

\* benign as C19 says it: within max_length, no leading or trailing
\* whitespace, no two whitespace characters in a row, no control character,
\* no backtick, no pattern match
Benign(s, n) ==
    /\ Len(s) <= n
    /\ s # <<>> => (s[1] \notin Whitespace /\ s[Len(s)] \notin Whitespace)
    /\ \A i \in 1..(Len(s) - 1) : ~(s[i] \in Whitespace /\ s[i + 1] \in Whitespace)
    /\ \A i \in DOMAIN s : ~IsControl(s[i]) /\ s[i] # "x60"
    /\ NoPatternMatch(s)

WordCount(s) ==
    Cardinality({i \in DOMAIN s :
        s[i] \notin Whitespace /\ (i = 1 \/ s[i - 1] \in Whitespace)})
\* the token budget the caller asked for, or the default of the family
RequestedBudget(a) ==
    IF a.max_tokens.type = "num" THEN a.max_tokens.n
    ELSE IF RequestedModel(a.model) \in O_SERIES_MODELS THEN 10000 ELSE 500
\* the user content of a request
UserContent(request) == request.messages[2].content

\* C20: when the first successful response leaves the accumulated text (its
\* chunk) without terminal punctuation, with fewer words than the token
\* budget (the word-count heuristic is not met) and at least half the budget
\* long, the invocation does not end there: a further endpoint call follows,
\* and its user content is the accumulated text.
C20_IncompleteChunkIsContinued ==
    \A i \in DOMAIN replies :
        (/\ IsSuccess(replies[i])
         /\ \A j \in 1..(i - 1) : ~IsSuccess(replies[j])
         /\ ~AllSpace(replies[i].content.s)
         /\ ~TerminalAfterTrim(replies[i].content.s)
         /\ WordCount(replies[i].content.s) < RequestedBudget(args)
         /\ 2 * WordCount(replies[i].content.s) >= RequestedBudget(args)) =>
            /\ Done => Len(sent) > i
            /\ Len(sent) > i =>
                   Trimmed(UserContent(sent[i + 1])) = Trimmed(replies[i].content.s)


\* C21: in every request get_model_response sends to the endpoint, on any
\* attempt, the model field is an API identifier among the values of MODELS.
C21_SentModelIsInCatalog ==
    \A i \in DOMAIN sent : sent[i].model \in MODELS_values

C21_Witness ==
    /\ Len(sent) = 3
    /\ args.model.s \notin MODELS_values
    /\ \A i \in DOMAIN sent : sent[i].model \in MODELS_values


\* C22: the wait after failed attempt k is min(2^k, 60) seconds, so never
\* more than the ceiling of 60 seconds; the sleeps of one invocation of
\* get_model_response are 1 s, then 2 s.
C22_WaitIsCappedBackoff ==
    /\ wt_result # -1 =>
           /\ wt_result <= 60
           /\ wt_result = IF 2^wt_attempt <= 60 THEN 2^wt_attempt ELSE 60
    /\ Len(sleeps) <= 2
    /\ \A i \in DOMAIN sleeps : sleeps[i] <= 60 /\ sleeps[i] = <<1, 2>>[i]

C22_Witness ==
    /\ wt_attempt = 6
    /\ wt_result = 60


\* C23: within one invocation every endpoint call after the first sends the
\* request of the call before it: the same model, the same two messages (the
\* system instruction, then the sanitized prompt) and the same temperature,
\* top_p and token parameter, whatever the call before it came to.
C23_RetrySendsTheSameRequest ==
    \A i \in 2..Len(sent) :
        /\ sent[i] = sent[i - 1]
        /\ sent[i].messages[1] = [role |-> "system", content |-> system_instruction]
        /\ sent[i].messages[2].role = "user"
        /\ AcceptedPrompt(args.prompt)
        /\ UserContent(sent[i]) = sanitize_prompt(args.prompt).val.s

C23_Witness ==
    /\ Len(sent) = 3
    /\ sent[1] = sent[2] /\ sent[2] = sent[3]
    /\ IsRateLimit(replies[1])
    /\ IsSuccess(replies[2])


\* C24: the parameters are validated before the prompt is sanitized: when
\* temperature, top_p or max_tokens is out of range and the prompt is invalid
\* as well (empty, over-length or an injection attempt), every attempt fails
\* with the ValidationError of an offending parameter, not with an error of
\* the prompt.
C24_ParametersCheckedBeforePrompt ==
    (/\ pc # "idle"
     /\ ~InvalidModel(args.model)
     /\ OffendingParameters(args) # {}
     /\ args.prompt.type = "str"
     /\ InvalidPrompt(args.prompt)) =>
        \A i \in DOMAIN body_results :
            /\ body_results[i].kind = "raise"
            /\ body_results[i].exc.cls = "ValidationError"
            /\ body_results[i].exc.field \in OffendingParameters(args)


\* s is made of letters and whitespace only
LettersAndSpace(s) == \A i \in DOMAIN s : s[i] = "a" \/ s[i] \in Whitespace

\* C25: sanitize_user_input collapses every run of whitespace inside the
\* input, tabs and newlines included, to one space: of a text of words and
\* whitespace it returns the same words, each two neighbours separated by
\* exactly one space, none joined to another.
C25_WhitespaceRunsBecomeOneSpace ==
    (/\ sui_result.kind = "return"
     /\ sui_input.type = "str"
     /\ LettersAndSpace(sui_input.s)) =>
        /\ WordCount(sui_result.val.s) = WordCount(sui_input.s)
        /\ \A i \in DOMAIN sui_result.val.s :
               sui_result.val.s[i] \in Whitespace =>
                   /\ sui_result.val.s[i] = " "
                   /\ 1 < i /\ i < Len(sui_result.val.s)
                   /\ sui_result.val.s[i - 1] \notin Whitespace


\* a response without choices, without a message or with empty content
Malformed(r) ==
    /\ r.kind = "response"
    /\ \/ ~r.choices
       \/ ~r.message
       \/ r.content.type = "NoneType"
       \/ r.content.s = <<>>

\* C26: a response that has no choices, no message or empty content yields
\* no return value: the attempt that got it raises APIError, and the
\* invocation ends with APIError.
C26_MalformedResponseEndsInAPIError ==
    \A i \in DOMAIN replies :
        Malformed(replies[i]) =>
            /\ body_results[i].kind = "raise"
            /\ body_results[i].exc.cls = "APIError"
            /\ Done => (outcome.kind = "raise" /\ outcome.exc.cls = "APIError")


\* some high-risk injection pattern matches in s
MatchesHighRisk(s) ==
    \E k \in DOMAIN high_risk_patterns : re_search(high_risk_patterns[k], s)

\* C28: no text that sanitize_user_input returns, and that get_model_response
\* sends as the user message, matches a high-risk injection pattern, also when
\* the filters that run after the pattern check have changed the text.
C28_SentPromptMatchesNoInjectionPattern ==
    \A i \in DOMAIN sent : ~MatchesHighRisk(UserContent(sent[i]))


C30_SleepOnlyBetweenFailureAndRetry ==
    /\ \A k \in DOMAIN trace :
           trace[k] = "sleep" => (k > 1 /\ trace[k-1] = "raised")
    /\ \A k \in DOMAIN trace :
           trace[k] = "returned" => \A j \in DOMAIN trace : j > k => trace[j] # "body"
    /\ Done => /\ trace[Len(trace)] # "sleep"
               /\ Count("body") \in 1..3
               /\ Count("sleep") = Count("body") - 1
    /\ Count("body") <= 3
    /\ Count("sleep") <= 2
    /\ Len(sleeps) = Count("sleep")


\* the six techniques apply_technique knows
KnownTechniques ==
    {PyStr(Zero_Shot), PyStr(Few_Shot), PyStr(Chain_of_Thought),
     PyStr(Meta_Prompting), PyStr(Self_Consistency), PyStr(Tree_of_Thought)}

\* C27: apply_technique returns a pair (transformed_prompt, explanation) of
\* strings; for each of the six known techniques the transformed prompt
\* contains the prompt as a substring, Zero-Shot returns the prompt
\* unchanged, and so does every technique name that is not one of the six.
C27_TransformedPromptContainsPrompt ==
    at_result.kind # "pending" =>
        /\ at_result.kind = "return"
        /\ at_result.val.type = "tuple"
        /\ Len(at_result.val.s) = 2
        /\ at_result.val.s[1].type = "str"
        /\ at_result.val.s[2].type = "str"
        /\ at_technique \in KnownTechniques =>
               Contains(at_result.val.s[1].s, at_prompt.s)
        /\ at_technique = PyStr(Zero_Shot) => at_result.val.s[1] = at_prompt
        /\ at_technique \notin KnownTechniques => at_result.val.s[1] = at_prompt

C27_Witness ==
    /\ at_result.kind = "return"
    /\ at_technique = PyStr(Meta_Prompting)
    /\ Len(at_prompt.s) > 2
    /\ Contains(at_result.val.s[1].s, at_prompt.s)
    /\ at_result.val.s[1] # at_prompt

====
